---- MODULE Spec2Model ----
(***************************************************************************)
(* A model of code/utils.py: the parameter helpers fix_nn and Hot_Plug,    *)
(* the GPU selection (select_GPUs, get_available_GPUs), unfold_label and   *)
(* learning_rate.                                                          *)
(*                                                                         *)
(* A module tree is a shape (which module owns which sub-modules and       *)
(* which parameter names, both in insertion order) plus the contents of    *)
(* every parameter slot.  A module object is identified by its path from   *)
(* the root, a dotted name by the sequence of its components (torch        *)
(* forbids '.' inside a module or parameter name), a tensor by an integer. *)
(***************************************************************************)
EXTENDS Integers, Sequences, FiniteSets, TLC

VARIABLES
    model,      \* the shape of the module tree (its _modules / parameter names)
    slots,      \* <<module path, parameter name>> -> content of _parameters[k]
    grad,       \* dotted name -> .grad of the Parameter object captured under it
    hp_params,  \* Hot_Plug.params: the ordered snapshot, name -> Parameter
    hp_ctor,    \* history: what named_parameters() gave at construction
    hp_before,  \* history: slots as they were when the call started
    hp_call,    \* history: the Hot_Plug call that just ended: "update", "restore",
                \*          or "none" when no call was the last thing to happen
    hp_lr,      \* history: the lr of that call
    hp_err,     \* history: how that call ended: "none" or "TypeError"
    theta,      \* the external map of the last fix_nn call: dotted name -> tensor
    fix_before, \* history: slots as they were when fix_nn started
    fix_call,   \* history: TRUE once fix_nn has been called
    fix_err,    \* history: how the last fix_nn call ended: "none", "KeyError", "TypeError"
    dist,       \* the module-level flag: '--local_rank' is among the arguments
    gpus,       \* the rows nvidia-smi prints: index, utilization, total, used
    args,       \* the arguments every process passes to select_GPUs
    world_size, \* torch.distributed.get_world_size() (1 process when not dist)
    pc,         \* rank -> where that process is in select_GPUs
    tensor,     \* rank -> the local tensor of select_GPUs
    bcast,      \* what rank 0 has handed to torch.distributed.broadcast
    ret,        \* rank -> what select_GPUs returned or raised
    gag,        \* history: the last call of get_available_GPUs and its outcome
    labels,     \* the labels argument of unfold_label
    classes,    \* the classes argument of unfold_label
    unfolded,   \* what unfold_label returned or raised
    lr_init,    \* the init argument of learning_rate
    lr_epoch,   \* the epoch argument of the last call of learning_rate
    lr_out      \* what that call returned, as the fraction num / den

hpVars == <<grad, hp_params, hp_ctor, hp_before, hp_call, hp_lr, hp_err>>
fixVars == <<theta, fix_before, fix_call, fix_err>>

treeVars == <<model, slots>>
gpuVars == <<dist, gpus, args, world_size, pc, tensor, bcast, ret, gag>>

numVars == <<labels, classes, unfolded, lr_init, lr_epoch, lr_out>>

vars == <<treeVars, hpVars, fixVars, gpuVars, numVars>>

-----------------------------------------------------------------------------
(* Values *)

None == [kind |-> "None"]
Tensor(v) == [kind |-> "Tensor", val |-> v]
isTensor(v) == v.kind = "Tensor"

-----------------------------------------------------------------------------
(* Module trees *)

Root == << >>

\* Critic_Network_MLP: two Linear layers under a parameterless root
ShapeCritic ==
    [ modules    |-> (Root :> <<"fc1", "fc2">>) @@ (<<"fc1">> :> << >>) @@ (<<"fc2">> :> << >>),
      parameters |-> (Root :> << >>) @@ (<<"fc1">> :> <<"weight", "bias">>)
                       @@ (<<"fc2">> :> <<"weight">>) ]

\* a bare nn.Linear: the root owns its parameters directly
ShapeLinear ==
    [ modules    |-> (Root :> << >>),
      parameters |-> (Root :> <<"weight", "bias">>) ]

\* a module that owns a sub-module and a parameter of its own
ShapeMixed ==
    [ modules    |-> (Root :> <<"fc1">>) @@ (<<"fc1">> :> << >>),
      parameters |-> (Root :> <<"weight">>) @@ (<<"fc1">> :> <<"weight">>) ]

\* an nn.Sequential nested in a root (feature_extractor / classifier style)
ShapeNested ==
    [ modules    |-> (Root :> <<"layer1", "fc">>) @@ (<<"layer1">> :> <<"0">>)
                       @@ (<<"layer1", "0">> :> << >>) @@ (<<"fc">> :> << >>),
      parameters |-> (Root :> << >>) @@ (<<"layer1">> :> << >>)
                       @@ (<<"layer1", "0">> :> <<"weight">>) @@ (<<"fc">> :> <<"bias">>) ]

Shapes == {ShapeCritic, ShapeLinear, ShapeMixed, ShapeNested}

\* every parameter slot of a shape: <<module path, parameter name>>
SlotsOf(sh) ==
    UNION { { <<m, sh.parameters[m][i]>> : i \in DOMAIN sh.parameters[m] } :
            m \in DOMAIN sh.modules }

GradValues == {-1, 2}       \* what a populated gradient may hold
ThetaValues == {11, 13}     \* what an external map may hold
LRs == {-1, 0, 2}          \* the learning rates passed to update

\* a parameter registered as None (nn.Linear(bias=False)) or holding a tensor
InitialContents(slot) ==
    IF slot[2] = "bias" THEN {None, Tensor(7)} ELSE {Tensor(3)}

\* name + '.' + k, and the prefix rule of named_parameters (prefix '' at the root)
Join(name, k) == Append(name, k)

\* Module.named_parameters(): pre-order over the modules, each module's own
\* non-None parameters first, then its sub-modules in insertion order
RECURSIVE NamedParametersFrom(_, _, _)
RECURSIVE NamedParametersOfChildren(_, _, _, _)
OwnParameters(sh, sl, m) ==
    LET ks == sh.parameters[m]
        F[i \in 0..Len(ks)] ==
            IF i = 0 THEN << >>
            ELSE IF isTensor(sl[<<m, ks[i]>>])
                 THEN Append(F[i - 1], [name |-> Join(m, ks[i]), param |-> sl[<<m, ks[i]>>]])
                 ELSE F[i - 1]
    IN  F[Len(ks)]
NamedParametersOfChildren(sh, sl, m, i) ==
    IF i > Len(sh.modules[m]) THEN << >>
    ELSE NamedParametersFrom(sh, sl, Append(m, sh.modules[m][i]))
            \o NamedParametersOfChildren(sh, sl, m, i + 1)
NamedParametersFrom(sh, sl, m) ==
    OwnParameters(sh, sl, m) \o NamedParametersOfChildren(sh, sl, m, 1)
named_parameters(sh, sl) == NamedParametersFrom(sh, sl, Root)

\* path = param_name.split('.'); the cursor walks path[:-1] through _modules
\* from the model and the slot is cursor._parameters[path[-1]]
RECURSIVE Walk(_, _)
Walk(cursor, path) ==
    IF path = << >> THEN cursor ELSE Walk(Append(cursor, Head(path)), Tail(path))
SlotOfName(param_name) ==
    LET path == param_name
    IN  <<Walk(Root, SubSeq(path, 1, Len(path) - 1)), path[Len(path)]>>

-----------------------------------------------------------------------------
(* Each specification below runs one part of utils.py; these predicates fix *)
(* the variables of the parts that take no part in it.                      *)

EmptyMap == [n \in {} |-> None]
NoCall == [called |-> FALSE]

\* no Hot_Plug is part of the behaviour
HotPlugIdle ==
    /\ grad = EmptyMap
    /\ hp_params = << >>
    /\ hp_ctor = << >>
    /\ hp_before = EmptyMap
    /\ hp_call = "none"
    /\ hp_lr = 0
    /\ hp_err = "none"

\* no module tree is part of the behaviour
TreeIdle ==
    /\ model = [modules |-> (Root :> << >>), parameters |-> (Root :> << >>)]
    /\ slots = EmptyMap

\* no process selects GPUs
GpuIdle ==
    /\ dist = FALSE
    /\ gpus = << >>
    /\ args = [N_per_process |-> 0, max_utilization |-> 0, max_memory_usage |-> 0]
    /\ world_size = 0
    /\ pc = << >>
    /\ tensor = << >>
    /\ bcast = [sent |-> FALSE, data |-> << >>]
    /\ ret = << >>
    /\ gag = NoCall

\* neither unfold_label nor learning_rate is part of the behaviour
NumIdle ==
    /\ labels = << >>
    /\ classes = 0
    /\ unfolded = NoCall
    /\ lr_init = 0
    /\ lr_epoch = 0
    /\ lr_out = NoCall

\* no fix_nn call is part of the behaviour
FixIdle ==
    /\ theta = EmptyMap
    /\ fix_before = EmptyMap
    /\ fix_call = FALSE
    /\ fix_err = "none"

-----------------------------------------------------------------------------
(* fix_nn *)

\* the name argument of k_param_fn: None at the root, a dotted string below
NoName == [none |-> TRUE, str |-> << >>]
Name(s) == [none |-> FALSE, str |-> s]

\* ParamStep with a lookup that leaves the slot alone when the name is absent
ParamStepPermissive(st, th, m, name, k) ==
    IF st.err # "none" THEN st
    ELSE IF ~isTensor(st.slots[<<m, k>>]) THEN st
    ELSE IF name.none THEN [st EXCEPT !.err = "TypeError"]
    ELSE IF Join(name.str, k) \notin DOMAIN th THEN st
    ELSE [st EXCEPT !.slots[<<m, k>>] = th[Join(name.str, k)]]

\* one iteration of the loop over tmp_model._parameters.items(), on
\* st = [slots, err]: the right-hand side name + '.' + k raises TypeError when
\* name is None, the lookup theta[...] raises KeyError when the key is absent
ParamStep(st, th, m, name, k) ==
    IF st.err # "none" THEN st
    ELSE IF ~isTensor(st.slots[<<m, k>>]) THEN st              \* continue
    ELSE IF name.none THEN [st EXCEPT !.err = "TypeError"]
    ELSE IF Join(name.str, k) \notin DOMAIN th THEN [st EXCEPT !.err = "KeyError"]
    ELSE [st EXCEPT !.slots[<<m, k>>] = th[Join(name.str, k)]]

RECURSIVE ParamLoop(_, _, _, _, _)
ParamLoop(st, th, m, name, ks) ==
    IF ks = << >> THEN st
    ELSE ParamLoop(ParamStep(st, th, m, name, Head(ks)), th, m, name, Tail(ks))

\* k_param_fn(tmp_model, name): a module with sub-modules only recurses into
\* them, a module without any rebinds its own parameters
RECURSIVE k_param_fn(_, _, _, _, _)
RECURSIVE ModuleLoop(_, _, _, _, _, _)
ModuleLoop(st, sh, th, m, name, ks) ==
    IF ks = << >> \/ st.err # "none" THEN st
    ELSE LET k == Head(ks)
             sub == IF name.none THEN Name(<<k>>) ELSE Name(Join(name.str, k))
         IN  ModuleLoop(k_param_fn(st, sh, th, Append(m, k), sub), sh, th, m, name, Tail(ks))
k_param_fn(st, sh, th, m, name) ==
    IF Len(sh.modules[m]) # 0
    THEN ModuleLoop(st, sh, th, m, name, sh.modules[m])
    ELSE ParamLoop(st, th, m, name, sh.parameters[m])

\* fix_nn(model, theta) as a function of the slots
fix_nn(sh, sl, th) == k_param_fn([slots |-> sl, err |-> "none"], sh, th, Root, NoName)

\* the dotted name of every parameter position of a shape
NamesOf(sh) == { Join(s[1], s[2]) : s \in SlotsOf(sh) }

\* the external maps passed: any subset of the names, any values
ThetaMaps(sh) ==
    UNION { [D -> { Tensor(v) : v \in ThetaValues }] : D \in SUBSET NamesOf(sh) }

FixInit ==
    /\ model \in Shapes
    /\ slots \in { f \in [SlotsOf(model) -> UNION { InitialContents(s) : s \in SlotsOf(model) }] :
                     \A s \in SlotsOf(model) : f[s] \in InitialContents(s) }
    /\ FixIdle
    /\ HotPlugIdle
    /\ GpuIdle
    /\ NumIdle

FixNN ==
    \E th \in ThetaMaps(model) :
        LET st == fix_nn(model, slots, th)
        IN  /\ slots' = st.slots
            /\ fix_err' = st.err
            /\ theta' = th
            /\ fix_before' = slots
            /\ fix_call' = TRUE
            /\ UNCHANGED <<model, hpVars, gpuVars, numVars>>

FixNext == FixNN

SpecFixNN == FixInit /\ [][FixNext]_vars

\* the leaves of the tree fix_nn was called on, as named_parameters lists them
LeavesBefore == named_parameters(model, fix_before)
LeafNamesBefore == { LeavesBefore[i].name : i \in DOMAIN LeavesBefore }

\* C2 as claimed: when the keys of the map are exactly the leaf names of the
\* tree, whatever its shape, fix_nn ends normally and every leaf slot reads
\* the map's value for its dotted name.
C2_Original ==
    (fix_call /\ DOMAIN theta = LeafNamesBefore) =>
        /\ fix_err = "none"
        /\ \A i \in DOMAIN LeavesBefore :
              slots[SlotOfName(LeavesBefore[i].name)] = theta[LeavesBefore[i].name]

\* a tree whose parameters all sit in sub-module-free modules below the root:
\* the trees on which the walk of k_param_fn reaches every leaf under its name
WalkedTree(sh) ==
    \A m \in DOMAIN sh.modules :
        sh.parameters[m] # << >> => (sh.modules[m] = << >> /\ m # Root)

OwnerHasNoChildren(e) == model.modules[SlotOfName(e.name)[1]] = << >>
Reached == SelectSeq(LeavesBefore, OwnerHasNoChildren)
\* a reached leaf the call cannot rebind: no entry in the map, or no name to
\* look up because its owner is the root
Unbound(e) == SlotOfName(e.name)[1] = Root \/ e.name \notin DOMAIN theta
FirstUnbound ==
    LET bad == { i \in DOMAIN Reached : Unbound(Reached[i]) }
    IN  IF bad = {} THEN Len(Reached) + 1
        ELSE CHOOSE i \in bad : \A j \in bad : i <= j

-----------------------------------------------------------------------------
(* Hot_Plug *)

\* UpdateStep with the step taken from the installed value instead of the snapshot
UpdateStepCompounding(st, entry, lr) ==
    IF st.err # "none" THEN st
    ELSE IF lr > 0
         THEN IF isTensor(grad[entry.name])
              THEN [st EXCEPT !.slots[SlotOfName(entry.name)] =
                        Tensor(@.val - lr * grad[entry.name].val)]
              ELSE [st EXCEPT !.err = "TypeError"]
         ELSE st

\* UpdateStep with the learning rate dropped from the step
UpdateStepNoLr(st, entry, lr) ==
    IF st.err # "none" THEN st
    ELSE IF lr > 0
         THEN IF isTensor(grad[entry.name])
              THEN [st EXCEPT !.slots[SlotOfName(entry.name)] =
                        Tensor(entry.param.val - grad[entry.name].val)]
              ELSE [st EXCEPT !.err = "TypeError"]
         ELSE [st EXCEPT !.slots[SlotOfName(entry.name)] = entry.param]

\* UpdateStep skipping a leaf whose gradient is None
UpdateStepSkipping(st, entry, lr) ==
    IF st.err # "none" THEN st
    ELSE IF lr > 0
         THEN IF isTensor(grad[entry.name])
              THEN [st EXCEPT !.slots[SlotOfName(entry.name)] =
                        Tensor(entry.param.val - lr * grad[entry.name].val)]
              ELSE st
         ELSE [st EXCEPT !.slots[SlotOfName(entry.name)] = entry.param]

\* one iteration of the loop of update, on st = [slots, err]; an exception
\* ends the call, so nothing runs once err is set
UpdateStep(st, entry, lr) ==
    IF st.err # "none" THEN st
    ELSE IF lr > 0
         THEN IF isTensor(grad[entry.name])
              THEN [st EXCEPT !.slots[SlotOfName(entry.name)] =
                        Tensor(entry.param.val - lr * grad[entry.name].val)]
              ELSE [st EXCEPT !.err = "TypeError"]      \* lr * None
         ELSE [st EXCEPT !.slots[SlotOfName(entry.name)] = entry.param]

RECURSIVE UpdateLoop(_, _, _)
UpdateLoop(st, entries, lr) ==
    IF entries = << >> THEN st
    ELSE UpdateLoop(UpdateStep(st, Head(entries), lr), Tail(entries), lr)

\* Hot_Plug.update(lr) as a function of the slots
update(sl, lr) == UpdateLoop([slots |-> sl, err |-> "none"], hp_params, lr)

HotPlugInit ==
    /\ FixIdle
    /\ GpuIdle
    /\ NumIdle
    /\ model \in Shapes
    /\ slots \in { f \in [SlotsOf(model) -> UNION { InitialContents(s) : s \in SlotsOf(model) }] :
                     \A s \in SlotsOf(model) : f[s] \in InitialContents(s) }
    /\ hp_params = named_parameters(model, slots)
    /\ hp_ctor = hp_params
    /\ grad \in [ { hp_params[i].name : i \in DOMAIN hp_params } ->
                    {None} \cup { Tensor(g) : g \in GradValues } ]
    /\ hp_before = slots
    /\ hp_call = "none"
    /\ hp_lr = 0
    /\ hp_err = "none"

Update ==
    \E lr \in LRs :
        LET st == update(slots, lr)
        IN  /\ slots' = st.slots
            /\ hp_err' = st.err
            /\ hp_before' = slots
            /\ hp_call' = "update"
            /\ hp_lr' = lr
            /\ UNCHANGED <<model, grad, hp_params, hp_ctor, fixVars, gpuVars, numVars>>

\* restore() is update(lr=0)
Restore ==
    LET st == update(slots, 0)
    IN  /\ slots' = st.slots
        /\ hp_err' = st.err
        /\ hp_before' = slots
        /\ hp_call' = "restore"
        /\ hp_lr' = 0
        /\ UNCHANGED <<model, grad, hp_params, hp_ctor, fixVars, gpuVars, numVars>>

\* a backward pass or zero_grad between two calls: the .grad that update reads
\* is whatever the captured Parameter carries at the time of the call
Backward ==
    /\ \E n \in DOMAIN grad, g \in {None} \cup { Tensor(x) : x \in GradValues } :
          /\ g # grad[n]
          /\ grad' = [grad EXCEPT ![n] = g]
    /\ hp_before' = slots
    /\ hp_call' = "none"
    /\ hp_lr' = 0
    /\ hp_err' = "none"
    /\ UNCHANGED <<model, slots, hp_params, hp_ctor, fixVars, gpuVars, numVars>>

HotPlugNext == Update \/ Restore \/ Backward

SpecHotPlug == HotPlugInit /\ [][HotPlugNext]_vars

\* the slot a snapshot entry names, and what it holds now / held before the call
Installed(i) == slots[SlotOfName(hp_ctor[i].name)]
InstalledBefore(i) == hp_before[SlotOfName(hp_ctor[i].name)]
Stepped(i, lr) == Tensor(hp_ctor[i].param.val - lr * grad[hp_ctor[i].name].val)
AllGradsPopulated == \A n \in DOMAIN grad : isTensor(grad[n])
\* the first snapshot entry without a gradient (Len + 1 when there is none)
FirstMissing ==
    LET missing == { i \in DOMAIN hp_params : ~isTensor(grad[hp_params[i].name]) }
    IN  IF missing = {} THEN Len(hp_params) + 1
        ELSE CHOOSE i \in missing : \A j \in missing : i <= j

\* C1: after restore(), whatever update calls came before, the snapshot is
\* still the one taken at construction and every slot it names holds exactly
\* the captured value; restore never fails.
C1_RestoreYieldsSnapshot ==
    /\ hp_params = hp_ctor
    /\ hp_call = "restore" =>
          /\ hp_err = "none"
          /\ \A i \in DOMAIN hp_ctor : Installed(i) = hp_ctor[i].param

\* C1 witness: a restore that put back a slot an earlier update had stepped
C1_Witness ==
    /\ hp_call = "restore"
    /\ \E i \in DOMAIN hp_ctor :
          /\ InstalledBefore(i) # hp_ctor[i].param
          /\ Installed(i) = hp_ctor[i].param

\* C4 as claimed: for every lr, negative ones included, update(lr) on fully
\* populated gradients leaves every captured slot at snapshot - lr * gradient.
C4_Original ==
    (hp_call = "update" /\ AllGradsPopulated) =>
        \A i \in DOMAIN hp_ctor : Installed(i) = Stepped(i, hp_lr)

\* C4 amended: for lr > 0 and fully populated gradients update(lr) leaves
\* every captured slot at snapshot - lr * gradient, whatever was installed
\* before; for lr <= 0 it installs the snapshot value itself.
C4_UpdateInstalls ==
    hp_call = "update" =>
        /\ (hp_lr > 0 /\ AllGradsPopulated) =>
              /\ hp_err = "none"
              /\ \A i \in DOMAIN hp_ctor : Installed(i) = Stepped(i, hp_lr)
        /\ hp_lr <= 0 =>
              /\ hp_err = "none"
              /\ \A i \in DOMAIN hp_ctor : Installed(i) = hp_ctor[i].param

\* C4 witness: a positive step taken over a slot that already held another
\* stepped value
C4_Witness ==
    /\ hp_call = "update" /\ hp_lr > 0 /\ hp_err = "none"
    /\ \E i \in DOMAIN hp_ctor :
          /\ InstalledBefore(i) # hp_ctor[i].param
          /\ InstalledBefore(i) # Installed(i)
          /\ Installed(i) # hp_ctor[i].param

\* C10 as claimed: update(lr) fails for every lr when a captured leaf has no
\* gradient.
C10_Original ==
    (hp_call = "update" /\ ~AllGradsPopulated) => hp_err # "none"

\* C10 amended: update(lr) fails exactly when lr > 0 and a captured leaf has
\* no gradient.  The failure is raised at the first such leaf in snapshot
\* order: the leaves before it hold their new stepped value, that leaf and
\* the later ones keep what was installed before the call.  For lr <= 0 the
\* call succeeds without reading any gradient.
C10_MissingGradient ==
    hp_call = "update" =>
        /\ hp_err = "TypeError" <=> (hp_lr > 0 /\ ~AllGradsPopulated)
        /\ hp_err = "TypeError" =>
              \A i \in DOMAIN hp_ctor :
                  Installed(i) = IF i < FirstMissing THEN Stepped(i, hp_lr)
                                 ELSE InstalledBefore(i)
        /\ hp_lr <= 0 => \A i \in DOMAIN hp_ctor : Installed(i) = hp_ctor[i].param

\* C10 witness: a failed update that left a later leaf at the stepped value
\* of an earlier call
C10_Witness ==
    /\ hp_call = "update" /\ hp_err = "TypeError"
    /\ \E i \in DOMAIN hp_ctor :
          /\ i > FirstMissing
          /\ Installed(i) # hp_ctor[i].param

-----------------------------------------------------------------------------
(* select_GPUs and get_available_GPUs *)

\* Thresholds and loads are in percent: utilization / 100.0 < max_utilization
\* is utilization < 100 * max_utilization, and used * 1.0 / total <
\* max_memory_usage is 100 * used < (100 * max_memory_usage) * total.
DefaultMaxUtilization == 50
DefaultMaxMemoryUsage == 50

MaxGPUs == 4        \* at most this many rows from nvidia-smi
MaxN == 2           \* N_per_process is 1..MaxN
WorldSize == 2      \* the number of processes of a distributed run

\* <<utilization, memory.total, memory.used>> of a device
Loads == { <<10, 100, 10>>, <<40, 100, 10>>, <<10, 100, 40>>, <<50, 100, 10>>, <<10, 100, 50>> }
\* <<max_utilization, max_memory_usage>> a caller passes
Thresholds == { <<50, 50>>, <<30, 30>> }

Row(i, load) == [index |-> i, utilization |-> load[1], total |-> load[2], used |-> load[3]]

Min(a, b) == IF a < b THEN a ELSE b
\* s[a:b] of Python for 0 <= a <= b, which stops at the end of the list
Slice(s, a, b) == SubSeq(s, Min(a, Len(s)) + 1, Min(b, Len(s)))

\* Available with the utilization test not strict
AvailableAtThreshold(row, max_utilization, max_memory_usage) ==
    /\ row.utilization <= max_utilization
    /\ 100 * row.used < max_memory_usage * row.total

\* the two nested tests of the loop of get_available_GPUs
Available(row, max_utilization, max_memory_usage) ==
    /\ row.utilization < max_utilization
    /\ 100 * row.used < max_memory_usage * row.total

\* get_available_GPUs(N, max_utilization, max_memory_usage) on the rows read
get_available_GPUs(N, max_utilization, max_memory_usage) ==
    LET Test(row) == Available(row, max_utilization, max_memory_usage)
        kept == SelectSeq(gpus, Test)
        gpu_ids == [i \in DOMAIN kept |-> kept[i].index]
    IN  IF Len(gpu_ids) < N
        THEN [err |-> "Exception", ids |-> << >>]
        ELSE [err |-> "none", ids |-> Slice(gpu_ids, 0, N)]

Called(N, max_utilization, max_memory_usage) ==
    [called |-> TRUE, N |-> N, max_utilization |-> max_utilization,
     max_memory_usage |-> max_memory_usage,
     result |-> get_available_GPUs(N, max_utilization, max_memory_usage)]

\* ReturnSlice cut at rank instead of N_per_process * rank
ReturnSliceByRank(ids, N_per_process, rank) == Slice(ids, rank, rank + N_per_process)

\* ids[N_per_process * rank: N_per_process * rank + N_per_process]
ReturnSlice(ids, N_per_process, rank) ==
    Slice(ids, N_per_process * rank, N_per_process * rank + N_per_process)

Ranks == 0..(world_size - 1)

GpuInit ==
    /\ TreeIdle /\ HotPlugIdle /\ FixIdle /\ NumIdle
    /\ dist \in BOOLEAN
    /\ world_size = IF dist THEN WorldSize ELSE 1
    /\ \E n \in 0..MaxGPUs : \E loads \in [1..n -> Loads] :
          gpus = [i \in 1..n |-> Row(i - 1, loads[i])]
    /\ \E n \in 1..MaxN, t \in Thresholds :
          args = [N_per_process |-> n, max_utilization |-> t[1], max_memory_usage |-> t[2]]
    /\ pc = [r \in Ranks |-> "start"]
    /\ tensor = [r \in Ranks |-> << >>]
    /\ bcast = [sent |-> FALSE, data |-> << >>]
    /\ ret = [r \in Ranks |-> [err |-> "none", ids |-> << >>]]
    /\ gag = NoCall

\* not dist: select_GPUs is get_available_GPUs with the caller's arguments
SelectLocal ==
    /\ ~dist
    /\ pc[0] = "start"
    /\ gag' = Called(args.N_per_process, args.max_utilization, args.max_memory_usage)
    /\ ret' = [ret EXCEPT ![0] = gag'.result]
    /\ pc' = [pc EXCEPT ![0] = IF gag'.result.err = "none" THEN "done" ELSE "raised"]
    /\ UNCHANGED <<dist, gpus, args, world_size, tensor, bcast>>
    /\ UNCHANGED <<treeVars, hpVars, fixVars, numVars>>

\* dist, in an initialised process group: up to the broadcast.  Every rank
\* allocates the zero tensor; rank 0 replaces it by the list
\* get_available_GPUs gives for all the processes, asked for without the
\* caller's thresholds, and raises when that call does
Enter(rank) ==
    /\ dist
    /\ pc[rank] = "start"
    /\ IF rank = 0
       THEN /\ gag' = Called(world_size * args.N_per_process,
                             DefaultMaxUtilization, DefaultMaxMemoryUsage)
            /\ IF gag'.result.err = "none"
               THEN /\ tensor' = [tensor EXCEPT ![0] = gag'.result.ids]
                    /\ pc' = [pc EXCEPT ![0] = "broadcast"]
                    /\ ret' = ret
               ELSE /\ tensor' = [tensor EXCEPT ![0] =
                                    [i \in 1..(world_size * args.N_per_process) |-> 0]]
                    /\ pc' = [pc EXCEPT ![0] = "raised"]
                    /\ ret' = [ret EXCEPT ![0] = gag'.result]
       ELSE /\ tensor' = [tensor EXCEPT ![rank] =
                            [i \in 1..(world_size * args.N_per_process) |-> 0]]
            /\ pc' = [pc EXCEPT ![rank] = "broadcast"]
            /\ UNCHANGED <<ret, gag>>
    /\ UNCHANGED <<dist, gpus, args, world_size, bcast>>
    /\ UNCHANGED <<treeVars, hpVars, fixVars, numVars>>

\* torch.distributed.broadcast(tensor, 0): rank 0 sends its tensor, the other
\* ranks block until it has and receive it into theirs
Broadcast(rank) ==
    /\ dist
    /\ pc[rank] = "broadcast"
    /\ IF rank = 0
       THEN /\ bcast' = [sent |-> TRUE, data |-> tensor[0]]
            /\ tensor' = tensor
       ELSE /\ bcast.sent
            /\ tensor' = [tensor EXCEPT ![rank] = bcast.data]
            /\ bcast' = bcast
    /\ pc' = [pc EXCEPT ![rank] = "return"]
    /\ UNCHANGED <<dist, gpus, args, world_size, ret, gag>>
    /\ UNCHANGED <<treeVars, hpVars, fixVars, numVars>>

\* ids = list(tensor.cpu().numpy()) and the slice of this rank
Return(rank) ==
    /\ dist
    /\ pc[rank] = "return"
    /\ ret' = [ret EXCEPT ![rank] =
                  [err |-> "none", ids |-> ReturnSlice(tensor[rank], args.N_per_process, rank)]]
    /\ pc' = [pc EXCEPT ![rank] = "done"]
    /\ UNCHANGED <<dist, gpus, args, world_size, tensor, bcast, gag>>
    /\ UNCHANGED <<treeVars, hpVars, fixVars, numVars>>

GpuNext ==
    \/ SelectLocal
    \/ \E rank \in Ranks : Enter(rank)
    \/ \E rank \in Ranks : Broadcast(rank)
    \/ \E rank \in Ranks : Return(rank)

SpecGPU == GpuInit /\ [][GpuNext]_vars

\* the positions of the rows that qualify under the given thresholds
Qualifying(max_utilization, max_memory_usage) ==
    { i \in DOMAIN gpus :
        /\ gpus[i].utilization < max_utilization
        /\ 100 * gpus[i].used < max_memory_usage * gpus[i].total }

\* C5: every call of get_available_GPUs raises exactly when fewer than N rows
\* qualify (both loads strictly below the thresholds it was given) and
\* otherwise returns N indices, the k-th being the index of the k-th
\* qualifying row in enumeration order.
C5_FirstNQualifying ==
    gag.called =>
        LET Q == Qualifying(gag.max_utilization, gag.max_memory_usage)
        IN  /\ gag.result.err = "Exception" <=> Cardinality(Q) < gag.N
            /\ gag.result.err = "none" =>
                  /\ Len(gag.result.ids) = gag.N
                  /\ \A k \in 1..gag.N :
                        \E i \in Q : /\ Cardinality({ j \in Q : j < i }) = k - 1
                                     /\ gag.result.ids[k] = gpus[i].index

\* C5 witness: a call that skipped a busy device and cut the list at N
C5_Witness ==
    /\ gag.called /\ gag.result.err = "none" /\ gag.N >= 2
    /\ Cardinality(Qualifying(gag.max_utilization, gag.max_memory_usage)) > gag.N
    /\ gag.result.ids[1] # 0

\* C6: in distributed mode a rank that has returned holds exactly
\* N_per_process ids, the slice [rank * N, rank * N + N) of the list rank 0
\* computed and broadcast, and two ranks never hold a common id.
C6_RankSlices ==
    dist =>
        /\ \A r \in Ranks : pc[r] = "done" =>
              /\ bcast.sent /\ bcast.data = gag.result.ids
              /\ ret[r].err = "none"
              /\ Len(ret[r].ids) = args.N_per_process
              /\ \A k \in 1..args.N_per_process :
                    ret[r].ids[k] = gag.result.ids[r * args.N_per_process + k]
        /\ \A r1, r2 \in Ranks :
              (r1 # r2 /\ pc[r1] = "done" /\ pc[r2] = "done") =>
                  \A k1 \in DOMAIN ret[r1].ids, k2 \in DOMAIN ret[r2].ids :
                      ret[r1].ids[k1] # ret[r2].ids[k2]

\* C6 witness: every rank has returned a slice of more than one id
C6_Witness ==
    /\ dist /\ args.N_per_process >= 2
    /\ \A r \in Ranks : pc[r] = "done"

\* C7 as claimed: no id select_GPUs returns, distributed or not, names a
\* device at or above the thresholds the caller passed.
C7_Original ==
    \A r \in Ranks : pc[r] = "done" =>
        \A k \in DOMAIN ret[r].ids :
            \A i \in DOMAIN gpus : gpus[i].index = ret[r].ids[k] =>
                /\ gpus[i].utilization < args.max_utilization
                /\ 100 * gpus[i].used < args.max_memory_usage * gpus[i].total

-----------------------------------------------------------------------------
(* unfold_label *)

MaxLen == 3         \* at most this many labels
MaxLabel == 3       \* labels are -1..MaxLabel

Range(s) == { s[i] : i \in DOMAIN s }
\* np.min(labels) of a non-empty list
Minimum(s) == CHOOSE x \in Range(s) : \A y \in Range(s) : x <= y

\* UnfoldRow with the label itself taken as the column
UnfoldRowNoOffset(label, mini, n) ==
    IF label >= n
    THEN [err |-> "IndexError", row |-> << >>]
    ELSE [err |-> "none", row |-> [c \in 1..n |-> IF c = label + 1 THEN 1 ELSE 0]]

\* one row: dump = n zeros, _class = label - mini, dump[_class] = 1; numpy
\* raises IndexError for an index past the end (_class is never negative)
UnfoldRow(label, mini, n) ==
    LET _class == label - mini
    IN  IF _class >= n
        THEN [err |-> "IndexError", row |-> << >>]
        ELSE [err |-> "none", row |-> [c \in 1..n |-> IF c = _class + 1 THEN 1 ELSE 0]]

RECURSIVE UnfoldLoop(_, _, _, _)
UnfoldLoop(new_labels, rest, mini, n) ==
    IF rest = << >> THEN [err |-> "none", rows |-> new_labels]
    ELSE LET r == UnfoldRow(Head(rest), mini, n)
         IN  IF r.err # "none" THEN [err |-> r.err, rows |-> << >>]
             ELSE UnfoldLoop(Append(new_labels, r.row), Tail(rest), mini, n)

unfold_label(ls, n) ==
    IF Cardinality(Range(ls)) # n THEN [err |-> "AssertionError", rows |-> << >>]
    ELSE IF ls = << >> THEN [err |-> "ValueError", rows |-> << >>]     \* np.min([])
    ELSE UnfoldLoop(<< >>, ls, Minimum(ls), n)

LabelInit ==
    /\ TreeIdle /\ HotPlugIdle /\ FixIdle /\ GpuIdle
    /\ \E n \in 0..MaxLen : labels \in [1..n -> -1..MaxLabel]
    /\ classes \in 0..(MaxLen + 1)
    /\ unfolded = NoCall
    /\ lr_init = 0
    /\ lr_epoch = 0
    /\ lr_out = NoCall

UnfoldLabel ==
    /\ ~unfolded.called
    /\ unfolded' = [called |-> TRUE, result |-> unfold_label(labels, classes)]
    /\ UNCHANGED <<labels, classes, lr_init, lr_epoch, lr_out>>
    /\ UNCHANGED <<treeVars, hpVars, fixVars, gpuVars>>

LabelNext == UnfoldLabel

SpecLabel == LabelInit /\ [][LabelNext]_vars

Distinct == Cardinality(Range(labels))
Spread == IF labels = << >> THEN 0
          ELSE (CHOOSE x \in Range(labels) : \A y \in Range(labels) : x >= y)
               - (CHOOSE x \in Range(labels) : \A y \in Range(labels) : x <= y)

\* C8 as claimed: unfold_label raises when the number of distinct labels is
\* not classes, and for every list with exactly classes distinct values it
\* returns a len(labels) x classes 0/1 matrix whose row i has its single 1 at
\* column labels[i] - min(labels).
C8_Original ==
    unfolded.called =>
        /\ Distinct # classes => unfolded.result.err # "none"
        /\ Distinct = classes =>
              /\ unfolded.result.err = "none"
              /\ Len(unfolded.result.rows) = Len(labels)
              /\ \A i \in DOMAIN labels :
                    /\ Len(unfolded.result.rows[i]) = classes
                    /\ \A c \in 1..classes :
                          unfolded.result.rows[i][c] =
                              IF c - 1 = labels[i] - Minimum(labels) THEN 1 ELSE 0

\* C8 amended: unfold_label raises AssertionError exactly when the number
\* of distinct labels is not classes.  Past the assertion, a non-empty list
\* whose labels are consecutive integers (max - min = classes - 1) gives the
\* len(labels) x classes 0/1 matrix with row i's single 1 at column
\* labels[i] - min(labels); a list with a gap (max - min >= classes) raises
\* IndexError, and the empty list with classes = 0 raises ValueError.
C8_OneHot ==
    unfolded.called =>
        /\ unfolded.result.err = "AssertionError" <=> Distinct # classes
        /\ (Distinct = classes /\ labels = << >>) => unfolded.result.err = "ValueError"
        /\ (Distinct = classes /\ labels # << >> /\ Spread >= classes) =>
              unfolded.result.err = "IndexError"
        /\ (Distinct = classes /\ labels # << >> /\ Spread = classes - 1) =>
              /\ unfolded.result.err = "none"
              /\ Len(unfolded.result.rows) = Len(labels)
              /\ \A i \in DOMAIN labels :
                    /\ Len(unfolded.result.rows[i]) = classes
                    /\ \A c \in 1..classes :
                          unfolded.result.rows[i][c] =
                              IF c - 1 = labels[i] - Minimum(labels) THEN 1 ELSE 0

\* C8 witness: a matrix returned for labels that do not start at 0 and repeat
C8_Witness ==
    /\ unfolded.called /\ unfolded.result.err = "none"
    /\ classes = 2 /\ Len(labels) = 3
    /\ Minimum(labels) # 0

-----------------------------------------------------------------------------
(* learning_rate *)

ThirdDecay == 160
SecondDecay == 120
FirstDecay == 60
DecayDivisor == 5   \* math.pow(0.2, k) = 1 / 5^k

MaxEpoch == 170     \* epochs are 0..MaxEpoch
MaxInit == 2        \* init is 1..MaxInit, in units of the caller's choice

RECURSIVE Pow(_, _)
Pow(b, k) == IF k = 0 THEN 1 ELSE b * Pow(b, k - 1)

\* OptimFactor with the first decay taken from epoch 60 on
OptimFactorFromThreshold(epoch) ==
    IF epoch > ThirdDecay THEN 3
    ELSE IF epoch > SecondDecay THEN 2
    ELSE IF epoch >= FirstDecay THEN 1
    ELSE 0

\* the if / elif chain that sets optim_factor
OptimFactor(epoch) ==
    IF epoch > ThirdDecay THEN 3
    ELSE IF epoch > SecondDecay THEN 2
    ELSE IF epoch > FirstDecay THEN 1
    ELSE 0

\* init * math.pow(0.2, optim_factor), kept exact as the fraction num / den
learning_rate(init, epoch) ==
    [num |-> init, den |-> Pow(DecayDivisor, OptimFactor(epoch))]

LrInit ==
    /\ TreeIdle /\ HotPlugIdle /\ FixIdle /\ GpuIdle
    /\ labels = << >>
    /\ classes = 0
    /\ unfolded = NoCall
    /\ lr_init \in 1..MaxInit
    /\ lr_epoch = 0
    /\ lr_out = NoCall

LearningRate ==
    /\ \E epoch \in 0..MaxEpoch :
          /\ lr_epoch' = epoch
          /\ lr_out' = [called |-> TRUE, result |-> learning_rate(lr_init, epoch)]
    /\ UNCHANGED <<labels, classes, unfolded, lr_init>>
    /\ UNCHANGED <<treeVars, hpVars, fixVars, gpuVars>>

LrNext == LearningRate

SpecLR == LrInit /\ [][LrNext]_vars

\* C9: learning_rate(init, epoch) is init * 0.2^k with k = 0 up to epoch 60,
\* 1 up to 120, 2 up to 160 and 3 beyond, and for positive init no earlier
\* epoch gets a smaller rate.
C9_Schedule ==
    lr_out.called =>
        /\ lr_epoch <= 60 => (lr_out.result.num = lr_init /\ lr_out.result.den = 1)
        /\ (60 < lr_epoch /\ lr_epoch <= 120) =>
              (lr_out.result.num = lr_init /\ lr_out.result.den = 5)
        /\ (120 < lr_epoch /\ lr_epoch <= 160) =>
              (lr_out.result.num = lr_init /\ lr_out.result.den = 25)
        /\ lr_epoch > 160 => (lr_out.result.num = lr_init /\ lr_out.result.den = 125)
        /\ \A e \in 0..lr_epoch :
              LET earlier == learning_rate(lr_init, e)
              IN  earlier.num * lr_out.result.den >= lr_out.result.num * earlier.den

\* C9 witness: a rate returned past the third threshold
C9_Witness ==
    lr_out.called /\ lr_epoch = 161 /\ lr_out.result.den = 125

====
